---- MODULE Spec2Model ----
(***************************************************************************)
(* Model of the ZapPay ML fraud-detection service (ml-service):            *)
(*   - the versioned artifact store written by train_models.py             *)
(*     (FraudDetector.save / AnomalyDetector.save) and read by             *)
(*     ModelManager.load_models (FraudDetector.load / AnomalyDetector.load)*)
(*   - the feedback log of TrainingService and the /feedback and /retrain  *)
(*     handlers                                                            *)
(*   - FeatureEngineer.extract_features as a pure function                 *)
(*   - FraudDetector.predict_proba, save and load on a detector whose      *)
(*     parameters are spelled out                                          *)
(*   - DataLoader.preprocess_data and prepare_train_test_split             *)
(*   - FraudDetector.evaluate, AnomalyDetector.predict with the threshold  *)
(*     reported beside its score, ModelExplainer.explain,                  *)
(*     TransactionPredictor.predict and the fields predict_fraud derives   *)
(*     from a probability, each as one call on any input                   *)
(***************************************************************************)
EXTENDS Integers, Sequences, FiniteSets, TLC

VARIABLES
    store,        \* artifact directory: version -> file family -> content
    mgr,          \* the ModelManager object built by lifespan
    attached,     \* app.state.model_manager is set
    lastLoad,     \* outcome of the most recent load_models call
    trainPc,      \* position of a running train_models.py ("idle" when none)
    trainBuild,   \* identity of the training run whose artifacts are being saved
    trainVersion, \* --version argument of the running train_models.py
    resp,         \* response of the most recent HTTP request
    log,          \* lines of feedback.jsonl, in file order
    issued,       \* feedback identifiers returned so far
    auto_retrain, \* settings.auto_retrain
    scheduled,    \* background retrain tasks added and not yet run
    taskResult,   \* value returned by the most recent TrainingService.retrain_models
    wallet,       \* wallet_data handed to FeatureEngineer.extract_features
    features,     \* mapping returned by the most recent extract_features
    calc          \* arguments and results of one method call made offline

vars == <<store, mgr, attached, lastLoad, trainPc, trainBuild, trainVersion, resp,
          log, issued, auto_retrain, scheduled, taskResult, wallet, features, calc>>

modelVars == <<store, mgr, attached, lastLoad, trainPc, trainBuild, trainVersion>>
feedbackVars == <<log, issued, auto_retrain, scheduled, taskResult>>
featureVars == <<wallet, features, calc>>

-----------------------------------------------------------------------------
(* Bounds *)

MaxBuild == 2        \* training runs are numbered 1..MaxBuild
MaxLog == 3          \* the feedback log holds at most MaxLog lines
MaxCols == 3         \* a request's feature frame has at most MaxCols columns
MaxRecords == 3      \* a dataset handed to preprocess_data has at most MaxRecords rows
MaxRows == 10        \* a dataset handed to prepare_train_test_split has at most MaxRows rows
MaxTx == 2           \* a wallet has at most MaxTx transactions

-----------------------------------------------------------------------------
(* Artifact store *)

Versions == {"1.0.0", "2.0.0"}
model_version == "1.0.0"

FraudFiles == {"random_forest", "xgboost", "metadata"}
AnomalyFiles == {"isolation_forest", "anomaly_scaler", "anomaly_metadata"}
Files == FraudFiles \cup AnomalyFiles

Absent == 0          \* the path does not exist
Corrupt == -1        \* the path exists but joblib.load raises on it
Builds == 1..MaxBuild

EmptyVersion == [f \in Files |-> Absent]

\* FraudDetector.__init__: no estimators, feature_names = [] (written 0)
NewFraudDetector == [obj |-> TRUE, rf_model |-> 0, xgb_model |-> 0, feature_names |-> 0]

\* AnomalyDetector.__init__: no model, no scaler, feature_names = [] (written 0)
NewAnomalyDetector == [obj |-> TRUE, model |-> 0, scaler |-> 0, feature_names |-> 0]

NoFraudDetector == [obj |-> FALSE, rf_model |-> 0, xgb_model |-> 0, feature_names |-> 0]
NoAnomalyDetector == [obj |-> FALSE, model |-> 0, scaler |-> 0, feature_names |-> 0]

\* FraudDetector.load(version) on directory contents dir = store[version].
\* The result is the detector as the call leaves it and the error raised.
FraudDetector_load(dir) ==
    LET d0 == NewFraudDetector IN
    IF dir["random_forest"] = Absent THEN [det |-> d0, err |-> "FileNotFoundError"]
    ELSE IF dir["random_forest"] = Corrupt THEN [det |-> d0, err |-> "Exception"]
    ELSE LET d1 == [d0 EXCEPT !.rf_model = dir["random_forest"]] IN
    IF dir["xgboost"] = Absent THEN [det |-> d1, err |-> "FileNotFoundError"]
    ELSE IF dir["xgboost"] = Corrupt THEN [det |-> d1, err |-> "Exception"]
    ELSE LET d2 == [d1 EXCEPT !.xgb_model = dir["xgboost"]] IN
    IF dir["metadata"] = Absent THEN [det |-> d2, err |-> "none"]
    ELSE IF dir["metadata"] = Corrupt THEN [det |-> d2, err |-> "Exception"]
    ELSE [det |-> [d2 EXCEPT !.feature_names = dir["metadata"]], err |-> "none"]

\* AnomalyDetector.load(version)
AnomalyDetector_load(dir) ==
    LET d0 == NewAnomalyDetector IN
    IF dir["isolation_forest"] = Absent THEN [det |-> d0, err |-> "FileNotFoundError"]
    ELSE IF dir["isolation_forest"] = Corrupt THEN [det |-> d0, err |-> "Exception"]
    ELSE LET d1 == [d0 EXCEPT !.model = dir["isolation_forest"]] IN
    IF dir["anomaly_scaler"] = Absent THEN [det |-> d1, err |-> "FileNotFoundError"]
    ELSE IF dir["anomaly_scaler"] = Corrupt THEN [det |-> d1, err |-> "Exception"]
    ELSE LET d2 == [d1 EXCEPT !.scaler = dir["anomaly_scaler"]] IN
    IF dir["anomaly_metadata"] = Absent THEN [det |-> d2, err |-> "none"]
    ELSE IF dir["anomaly_metadata"] = Corrupt THEN [det |-> d2, err |-> "Exception"]
    ELSE [det |-> [d2 EXCEPT !.feature_names = dir["anomaly_metadata"]], err |-> "none"]

\* ModelManager.__init__
NewModelManager ==
    [fraud_detector |-> NoFraudDetector,
     anomaly_detector |-> NoAnomalyDetector,
     transaction_predictor |-> FALSE,
     explainer |-> "None",
     models_loaded |-> FALSE]

\* ModelManager.load_models on manager m: the manager afterwards and the
\* error that escapes the call ("none" when it returns normally).
ModelManager_load_models(m, dir) ==
    LET f == FraudDetector_load(dir)
        m1 == [m EXCEPT !.fraud_detector = f.det]
    IN
    IF f.err = "FileNotFoundError"
      THEN [m |-> [m1 EXCEPT !.models_loaded = FALSE], raised |-> "none",
            fraud |-> f.err, anomaly |-> "not called"]
    ELSE IF f.err = "Exception"
      THEN [m |-> [m1 EXCEPT !.models_loaded = FALSE], raised |-> "Exception",
            fraud |-> f.err, anomaly |-> "not called"]
    ELSE
    LET a == AnomalyDetector_load(dir)
        m2 == [m1 EXCEPT !.anomaly_detector = a.det]
    IN
    IF a.err = "FileNotFoundError"
      THEN [m |-> [m2 EXCEPT !.models_loaded = FALSE], raised |-> "none",
            fraud |-> f.err, anomaly |-> a.err]
    ELSE IF a.err = "Exception"
      THEN [m |-> [m2 EXCEPT !.models_loaded = FALSE], raised |-> "Exception",
            fraud |-> f.err, anomaly |-> a.err]
    ELSE
      [m |-> [m2 EXCEPT !.transaction_predictor = TRUE,
                        !.explainer = IF f.det.rf_model # 0 THEN "uninitialized"
                                      ELSE m2.explainer,
                        !.models_loaded = TRUE],
       raised |-> "none", fraud |-> f.err, anomaly |-> a.err]

\* ModelManager.is_ready
is_ready(m) ==
    m.models_loaded /\ m.fraud_detector.obj /\ m.anomaly_detector.obj

NoLoad == [called |-> FALSE, dir |-> EmptyVersion, raised |-> "none",
           fraud |-> "not called", anomaly |-> "not called"]

LoadRecord(r, dir) ==
    [called |-> TRUE, dir |-> dir, raised |-> r.raised,
     fraud |-> r.fraud, anomaly |-> r.anomaly]

NoResp == [route |-> "none", status |-> 0, detector |-> NoFraudDetector,
           will_retrain |-> FALSE, success |-> FALSE, feedback_id |-> 0,
           feedback_count |-> 0, models_retrained |-> 0, scored |-> "none",
           request |-> "none"]

-----------------------------------------------------------------------------
(* Service start-up and reload *)

\* main.lifespan: build a manager, load, attach it unless load_models raised
lifespan ==
    LET r == ModelManager_load_models(NewModelManager, store[model_version]) IN
    /\ mgr' = r.m
    /\ attached' = (r.raised = "none")
    /\ lastLoad' = LoadRecord(r, store[model_version])
    /\ resp' = NoResp
    /\ UNCHANGED <<store, trainPc, trainBuild, trainVersion>>
    /\ UNCHANGED <<feedbackVars, featureVars>>

\* ModelManager.load_models called again on the attached manager
load_models ==
    /\ attached
    /\ LET r == ModelManager_load_models(mgr, store[model_version]) IN
       /\ mgr' = r.m
       /\ lastLoad' = LoadRecord(r, store[model_version])
    /\ UNCHANGED <<store, attached, trainPc, trainBuild, trainVersion, resp>>
    /\ UNCHANGED <<feedbackVars, featureVars>>

-----------------------------------------------------------------------------
(* train_models.py: a separate process that writes the artifact files of   *)
(* one training run one joblib.dump at a time                              *)

\* train_models.main up to the first save: pick --version, train
train_models_main ==
    /\ trainPc = "idle"
    /\ trainBuild < MaxBuild
    /\ \E v \in Versions : trainVersion' = v
    /\ trainBuild' = trainBuild + 1
    /\ trainPc' = "random_forest"
    /\ UNCHANGED <<store, mgr, attached, lastLoad, resp>>
    /\ UNCHANGED <<feedbackVars, featureVars>>

\* the file written after file f by train_fraud_detector / train_anomaly_detector
NextDump(f) ==
    CASE f = "random_forest" -> "xgboost"
      [] f = "xgboost" -> "metadata"
      [] f = "metadata" -> "isolation_forest"
      [] f = "isolation_forest" -> "anomaly_scaler"
      [] f = "anomaly_scaler" -> "anomaly_metadata"
      [] f = "anomaly_metadata" -> "idle"

\* one joblib.dump of FraudDetector.save(version)
FraudDetector_save ==
    /\ trainPc \in FraudFiles
    /\ store' = [store EXCEPT ![trainVersion][trainPc] = trainBuild]
    /\ trainPc' = NextDump(trainPc)
    /\ UNCHANGED <<mgr, attached, lastLoad, trainBuild, trainVersion, resp>>
    /\ UNCHANGED <<feedbackVars, featureVars>>

\* one joblib.dump of AnomalyDetector.save(version)
AnomalyDetector_save ==
    /\ trainPc \in AnomalyFiles
    /\ store' = [store EXCEPT ![trainVersion][trainPc] = trainBuild]
    /\ trainPc' = NextDump(trainPc)
    /\ UNCHANGED <<mgr, attached, lastLoad, trainBuild, trainVersion, resp>>
    /\ UNCHANGED <<feedbackVars, featureVars>>

-----------------------------------------------------------------------------
(* Inference *)

\* request.features: absent (None), an empty mapping, the mapping with every
\* schema key, or a mapping that lacks some
FeatureInputs == {"none", "empty", "schema", "partial"}

\* FeatureEngineer.validate_features on a request's feature mapping: only the
\* mapping with every schema key passes
ValidInput(x) == x = "schema"

\* FraudDetector.predict_proba on detector d: "ok" or the error raised
FraudDetector_predict_proba(d, x) ==
    IF d.rf_model = 0 \/ d.xgb_model = 0 THEN "ValueError"
    ELSE IF d.feature_names # 0 /\ x = "partial" THEN "KeyError"
    ELSE IF d.feature_names = 0 THEN "ValueError"
    ELSE "ok"

\* the features looked at before the readiness of the manager
predict_fraud_status_features_first(x) ==
    IF ~attached THEN 500
    ELSE IF x \in {"none", "empty"} THEN 400
    ELSE IF ~is_ready(mgr) THEN 503
    ELSE IF FraudDetector_predict_proba(mgr.fraud_detector, x) = "ok" THEN 200
    ELSE 500

\* routes.predict.predict_fraud: the HTTP status
predict_fraud_status(x) ==
    IF ~attached THEN 500
    ELSE IF ~is_ready(mgr) THEN 503
    ELSE IF x \in {"none", "empty"} THEN 400
    ELSE IF FraudDetector_predict_proba(mgr.fraud_detector, x) = "ok" THEN 200
    ELSE 500

predict_fraud ==
    /\ lastLoad.called
    /\ \E x \in FeatureInputs :
         resp' = [NoResp EXCEPT !.route = "predict_fraud",
                                !.status = predict_fraud_status(x),
                                !.detector = IF predict_fraud_status(x) = 200
                                             THEN mgr.fraud_detector
                                             ELSE NoFraudDetector,
                                !.scored = IF predict_fraud_status(x) \in {200, 500}
                                              /\ attached
                                           THEN x ELSE "none",
                                !.request = x]
    /\ UNCHANGED modelVars
    /\ UNCHANGED <<feedbackVars, featureVars>>

\* AnomalyDetector.predict on detector d: "ok" or the error raised
AnomalyDetector_predict(d, x) ==
    IF d.model = 0 \/ d.scaler = 0 THEN "ValueError"
    ELSE IF d.feature_names # 0 /\ x = "partial" THEN "KeyError"
    ELSE IF d.feature_names = 0 THEN "ValueError"
    ELSE "ok"

\* routes.predict.detect_anomaly; resp.scored is the feature mapping handed to
\* AnomalyDetector.predict, "none" when the handler answers before that call;
\* resp.request is the features of the request
detect_anomaly ==
    /\ lastLoad.called
    /\ \E x \in FeatureInputs :
         LET status ==
                 IF ~attached THEN 500
                 ELSE IF ~is_ready(mgr) THEN 503
                 ELSE IF x \in {"none", "empty"} THEN 400
                 ELSE IF AnomalyDetector_predict(mgr.anomaly_detector, x) = "ok" THEN 200
                 ELSE 500
         IN resp' = [NoResp EXCEPT !.route = "detect_anomaly",
                                   !.status = status,
                                   !.scored = IF status \in {200, 500} /\ attached
                                              THEN x ELSE "none",
                                   !.request = x]
    /\ UNCHANGED modelVars
    /\ UNCHANGED <<feedbackVars, featureVars>>

-----------------------------------------------------------------------------
(* Feedback log (services/trainer.py) *)

min_training_samples == 2   \* settings.min_training_samples, scaled down
MaxTasks == 2               \* background tasks pending at one time

Ids == 1..(MaxLog + 1)      \* values uuid.uuid4() can return

WalletInputs == {"0xAB", "0xab"}

\* (actual_fraud, predicted_fraud) of a FeedbackRequest: a confirmed and a
\* refuted prediction
LabelInputs == {<<TRUE, TRUE>>, <<FALSE, TRUE>>}

\* str.lower on the addresses used here
Lower(a) ==
    CASE a = "0xAB" -> "0xab"
      [] a = "0xA" -> "0xa"
      [] a = "0xB" -> "0xb"
      [] OTHER -> a

\* One line of feedback.jsonl.  kind tells what the bytes of the line are:
\*   "record"       json.dumps of a feedback dict, as store_feedback writes it
\*   "badjson"      text json.loads rejects with JSONDecodeError (also a blank line)
\*   "nonrecord"    valid JSON that is not a feedback object (42, null, [])
\*   "undecodable"  bytes that are not text in the file's encoding
LineKinds == {"record", "badjson", "nonrecord", "undecodable"}

Line(kind, id, w, actual, predicted) ==
    [kind |-> kind, id |-> id, wallet_address |-> w,
     actual_fraud |-> actual, predicted_fraud |-> predicted,
     correct_prediction |-> (actual = predicted)]

ForeignLine(kind) == Line(kind, 0, "", FALSE, FALSE)

\* store_feedback opening the file with 'w' instead of 'a'
store_feedback_truncating(file, id, wallet_address, actual_fraud, predicted_fraud) ==
    << Line("record", id, Lower(wallet_address), actual_fraud, predicted_fraud) >>

\* TrainingService.store_feedback: the file after the append
store_feedback(file, id, wallet_address, actual_fraud, predicted_fraud) ==
    Append(file, Line("record", id, Lower(wallet_address), actual_fraud, predicted_fraud))

\* iterating the text-mode file raises when a line cannot be decoded
Undecodable(file) == \E i \in 1..Len(file) : file[i].kind = "undecodable"

\* json.loads(line) raises JSONDecodeError
JSONDecodeError(line) == line.kind = "badjson"

\* TrainingService.get_feedback_count: sum(1 for _ in f)
get_feedback_count(file) ==
    IF Undecodable(file) THEN [err |-> "UnicodeDecodeError", value |-> 0]
    ELSE [err |-> "none", value |-> Len(file)]

RECURSIVE ReadLines(_, _)
\* the loop of load_feedback_data over the lines of the file
ReadLines(file, feedback_list) ==
    IF file = << >> THEN feedback_list
    ELSE IF JSONDecodeError(Head(file)) THEN ReadLines(Tail(file), feedback_list)
    ELSE ReadLines(Tail(file), Append(feedback_list, Head(file)))

\* TrainingService.load_feedback_data
load_feedback_data(file) ==
    IF Undecodable(file) THEN [err |-> "UnicodeDecodeError", value |-> << >>]
    ELSE [err |-> "none", value |-> ReadLines(file, << >>)]

NoTask == [called |-> FALSE, success |-> FALSE, message |-> "", feedback_processed |-> 0,
           load_err |-> "none", feedback_data |-> << >>, file |-> << >>]

\* TrainingService.retrain_models(model_manager, model_type): the returned dict,
\* with what load_feedback_data read and returned
TrainingService_retrain_models(model_manager, file) ==
    LET r == load_feedback_data(file)
        t == [NoTask EXCEPT !.called = TRUE, !.load_err = r.err,
                            !.feedback_data = r.value, !.file = file]
    IN
    IF r.err # "none" THEN [t EXCEPT !.success = FALSE, !.message = r.err]
    ELSE IF r.value = << >> THEN [t EXCEPT !.success = FALSE, !.message = "No feedback data"]
    ELSE [t EXCEPT !.success = TRUE, !.message = "Retraining completed",
                   !.feedback_processed = Len(r.value)]

\* the threshold compared with = instead of >=
will_retrain_at_threshold(auto, feedback_count) ==
    auto /\ feedback_count = min_training_samples

\* the threshold compared with > instead of >=
will_retrain_strict(auto, feedback_count) ==
    auto /\ feedback_count > min_training_samples

\* the will_retrain expression of routes.train.submit_feedback
will_retrain(auto, feedback_count) ==
    auto /\ feedback_count >= min_training_samples

\* routes.train.submit_feedback
submit_feedback ==
    /\ lastLoad.called
    /\ Len(log) < MaxLog
    /\ \E w \in WalletInputs, labels \in LabelInputs, id \in Ids \ issued :
         LET file == store_feedback(log, id, w, labels[1], labels[2])
             c == get_feedback_count(file)
         IN
         /\ log' = file
         /\ issued' = issued \cup {id}
         /\ resp' = IF c.err # "none"
                    THEN [NoResp EXCEPT !.route = "submit_feedback", !.status = 500]
                    ELSE [NoResp EXCEPT !.route = "submit_feedback", !.status = 200,
                                        !.success = TRUE, !.feedback_id = id,
                                        !.feedback_count = c.value,
                                        !.will_retrain = will_retrain(auto_retrain, c.value)]
    /\ UNCHANGED <<auto_retrain, scheduled, taskResult>>
    /\ UNCHANGED <<modelVars, featureVars>>

\* the force flag read the wrong way round
NotEnough_forced(force, feedback_count) ==
    force /\ feedback_count < min_training_samples

\* the "not enough samples" test of routes.train.retrain_models
NotEnough(force, feedback_count) ==
    ~force /\ feedback_count < min_training_samples

\* routes.train.retrain_models (POST /retrain); resp.request is the force flag
\* of the request
retrain_route ==
    /\ lastLoad.called
    /\ scheduled < MaxTasks
    /\ \E force \in BOOLEAN :
         LET c == get_feedback_count(log)
             r == [NoResp EXCEPT !.route = "retrain",
                                 !.request = IF force THEN "force" ELSE "no_force"]
         IN
         IF ~attached \/ (~force /\ c.err # "none")
         THEN /\ resp' = [r EXCEPT !.status = 500]
              /\ scheduled' = scheduled
         ELSE IF NotEnough(force, c.value)
         THEN /\ resp' = [r EXCEPT !.status = 200, !.success = FALSE,
                                   !.feedback_count = c.value]
              /\ scheduled' = scheduled
         ELSE /\ resp' = [r EXCEPT !.status = 200, !.success = TRUE, !.models_retrained = 1]
              /\ scheduled' = scheduled + 1
    /\ UNCHANGED <<log, issued, auto_retrain, taskResult>>
    /\ UNCHANGED <<modelVars, featureVars>>

\* a retrain that carries out step 4 of its TODO list without saving first:
\* it discards the manager's detectors
retrain_models_replacing ==
    /\ scheduled > 0
    /\ scheduled' = scheduled - 1
    /\ taskResult' = TrainingService_retrain_models(mgr, log)
    /\ mgr' = NewModelManager
    /\ UNCHANGED <<log, issued, auto_retrain, resp>>
    /\ UNCHANGED <<store, attached, lastLoad, trainPc, trainBuild, trainVersion, featureVars>>

\* the background task: TrainingService.retrain_models(model_manager, model_type)
retrain_models ==
    /\ scheduled > 0
    /\ scheduled' = scheduled - 1
    /\ taskResult' = TrainingService_retrain_models(mgr, log)
    /\ UNCHANGED <<log, issued, auto_retrain, resp>>
    /\ UNCHANGED <<modelVars, featureVars>>

-----------------------------------------------------------------------------
(* FeatureEngineer (services/feature_engineering.py) *)

\* FeatureEngineer.KAGGLE_FEATURES
KAGGLE_FEATURES ==
    << "total_transactions", "total_ether_sent", "total_ether_received",
       "total_ether_sent_contracts", "total_ether_balance", "total_erc20_tnxs",
       "avg_val_received", "avg_val_sent", "avg_value_sent_to_contract",
       "max_value_received", "max_val_sent", "max_value_sent_to_contract",
       "min_value_received", "min_val_sent", "min_value_sent_to_contract",
       "time_diff_between_first_and_last_mins", "avg_min_between_sent_tnx", "avg_min_between_received_tnx",
       "sent_tnx", "received_tnx", "number_of_created_contracts",
       "unique_received_from_addresses", "unique_sent_to_addresses", "erc20_total_ether_received",
       "erc20_total_ether_sent", "erc20_total_ether_sent_contract", "erc20_uniq_sent_addr",
       "erc20_uniq_rec_addr", "erc20_uniq_sent_addr_1", "erc20_uniq_rec_contract_addr",
       "erc20_avg_time_between_sent_tnx", "erc20_avg_time_between_rec_tnx", "erc20_avg_time_between_rec_2_tnx",
       "erc20_avg_time_between_contract_tnx", "erc20_min_val_rec", "erc20_max_val_rec",
       "erc20_avg_val_rec", "erc20_min_val_sent", "erc20_max_val_sent",
       "erc20_avg_val_sent", "erc20_uniq_sent_token_name", "erc20_uniq_rec_token_name",
       "erc20_most_sent_token_type", "erc20_most_rec_token_type" >>

Schema == {KAGGLE_FEATURES[i] : i \in 1..Len(KAGGLE_FEATURES)}

\* A Python number m/d * 10^e; isfloat tells 0.0 from 0
Num(m, d, e, isfloat) == [m |-> m, d |-> d, e |-> e, isfloat |-> isfloat]
Int0 == Num(0, 1, 0, FALSE)
Float0 == Num(0, 1, 0, TRUE)
PyInt(n) == Num(n, 1, 0, FALSE)
IsNumber(x) == x \in [m : Int, d : Int \ {0}, e : Int, isfloat : BOOLEAN]
IsZero(x) == x.m = 0
\* float('nan'): what pandas puts where a record has no such key, and what
\* Series.mean()/max()/min() return when no value is left after skipping them
NaN == [m |-> 0, d |-> 0, e |-> 0, isfloat |-> TRUE]

\* float(x) / 1e18
ToEth(x) == Num(x, 1, -18, TRUE)

\* Inputs.  A value, timestamp or balance is text that float()/int() accepts
\* (num TRUE) or rejects (num FALSE).
Addresses == {"0xA", "0xb"}
Values == {[num |-> TRUE, v |-> 0], [num |-> TRUE, v |-> 2], [num |-> FALSE, v |-> 0]}
Balances == {[num |-> TRUE, v |-> 0], [num |-> TRUE, v |-> 5], [num |-> FALSE, v |-> 0]}
Timestamps == {60, 180}
WalletAddresses == {"0xA", "0xa", "None"}

\* the keys extract_features reads from a transaction record
TxFields == {"from", "to", "value", "timeStamp"}

\* A transaction record; lacks names the key the record does not carry
\* ("none" when it carries all four).  The slot of a lacking key is fixed,
\* and so are the timestamp of a record that lacks a key and the addresses
\* of a record that lacks its timestamp.
Transactions ==
    {t \in [from : Addresses, to : Addresses, value : Values,
            timeStamp : Timestamps, lacks : TxFields \cup {"none"}] :
        /\ t.lacks = "from" => t.from = "0xb"
        /\ t.lacks = "to" => t.to = "0xb"
        /\ t.lacks = "value" => t.value = [num |-> TRUE, v |-> 0]
        /\ t.lacks # "none" => t.timeStamp = 60
        /\ t.lacks = "timeStamp" => t.from = "0xb" /\ t.to = "0xb"}

\* the record carries key f
Has(t, f) == t.lacks # f

\* the rows whose value_eth is not NaN
WithValue(df) == SelectSeq(df, LAMBDA t : Has(t, "value"))

RECURSIVE SeqsUpTo(_, _)
SeqsUpTo(S, n) ==
    IF n = 0 THEN {<< >>}
    ELSE LET shorter == SeqsUpTo(S, n - 1) IN
         shorter \cup {Append(q, x) : q \in {r \in shorter : Len(r) = n - 1}, x \in S}

Wallets == [transactions : SeqsUpTo(Transactions, MaxTx),
            address : WalletAddresses, balance : Balances]

RECURSIVE SumValues(_)
\* Series.sum() of the value column (in wei)
SumValues(df) == IF df = << >> THEN 0 ELSE Head(df).value.v + SumValues(Tail(df))

RECURSIVE MaxValue(_)
MaxValue(df) ==
    IF Len(df) = 1 THEN df[1].value.v
    ELSE LET r == MaxValue(Tail(df)) IN IF df[1].value.v > r THEN df[1].value.v ELSE r

RECURSIVE MinValue(_)
MinValue(df) ==
    IF Len(df) = 1 THEN df[1].value.v
    ELSE LET r == MinValue(Tail(df)) IN IF df[1].value.v < r THEN df[1].value.v ELSE r

\* Series.mean(), .max(), .min() of value_eth over the rows that have one
Mean(values) ==
    IF values = << >> THEN NaN ELSE Num(SumValues(values), Len(values), -18, TRUE)
Max(values) == IF values = << >> THEN NaN ELSE ToEth(MaxValue(values))
Min(values) == IF values = << >> THEN NaN ELSE ToEth(MinValue(values))

RECURSIVE Insert(_, _)
Insert(x, sorted) ==
    IF sorted = << >> THEN << x >>
    ELSE IF x <= Head(sorted) THEN << x >> \o sorted
    ELSE << Head(sorted) >> \o Insert(x, Tail(sorted))

RECURSIVE SortedTimes(_)
\* sorted(df['timestamp'].tolist())
SortedTimes(df) ==
    IF df = << >> THEN << >> ELSE Insert(Head(df).timeStamp, SortedTimes(Tail(df)))

RECURSIVE SumDiffs(_)
\* sum of np.diff(times)
SumDiffs(times) ==
    IF Len(times) < 2 THEN 0 ELSE (times[2] - times[1]) + SumDiffs(Tail(times))

\* the features assigned inside the try block before the fill loop
ComputedKeys ==
    {"total_transactions", "sent_tnx", "received_tnx", "total_ether_sent",
     "total_ether_received", "total_ether_balance", "total_ether_sent_contracts",
     "number_of_created_contracts", "avg_val_sent", "max_val_sent", "min_val_sent",
     "avg_val_received", "max_value_received", "min_value_received",
     "avg_value_sent_to_contract", "max_value_sent_to_contract",
     "min_value_sent_to_contract", "time_diff_between_first_and_last_mins",
     "avg_min_between_sent_tnx", "avg_min_between_received_tnx",
     "unique_sent_to_addresses", "unique_received_from_addresses",
     "total_erc20_tnxs", "erc20_total_ether_received", "erc20_total_ether_sent",
     "erc20_total_ether_sent_contract", "erc20_uniq_sent_addr", "erc20_uniq_rec_addr",
     "erc20_uniq_sent_addr_1", "erc20_uniq_rec_contract_addr",
     "erc20_avg_time_between_sent_tnx", "erc20_avg_time_between_rec_tnx",
     "erc20_avg_time_between_rec_2_tnx", "erc20_avg_time_between_contract_tnx",
     "erc20_min_val_rec", "erc20_max_val_rec", "erc20_avg_val_rec",
     "erc20_min_val_sent", "erc20_max_val_sent", "erc20_avg_val_sent",
     "erc20_uniq_sent_token_name", "erc20_uniq_rec_token_name",
     "erc20_most_sent_token_type", "erc20_most_rec_token_type"}

\* df[f] raises KeyError for a column pd.DataFrame(transactions) does not
\* have: no record carries the key f
RaisesKeyError(df) ==
    df # << >> /\ \E f \in TxFields : \A i \in 1..Len(df) : ~Has(df[i], f)

\* float(x) of a non-numeric value, or int(x) of the NaN standing for a
\* timestamp the record does not carry
RaisesValueError(df) ==
    \E i \in 1..Len(df) :
        \/ Has(df[i], "value") /\ ~df[i].value.num
        \/ ~Has(df[i], "timeStamp")

\* an exception is raised inside the try block: .lower() of an address that is
\* None, float() of a non-numeric balance, or one of the column steps
ExtractionRaises(w) ==
    \/ w.address = "None"
    \/ ~w.balance.num
    \/ RaisesKeyError(w.transactions)
    \/ RaisesValueError(w.transactions)

\* the balance left out of the vector
TotalEtherBalance_dropped(balance) == Int0

\* features['total_ether_balance'] = balance / 1e18 if balance else 0
TotalEtherBalance(balance) ==
    IF balance.v # 0 THEN ToEth(balance.v) ELSE Int0

\* the value the try block assigns to key k
Computed(w, k) ==
    LET df == w.transactions
        address == Lower(w.address)
        sent_df == SelectSeq(df, LAMBDA t : Has(t, "from") /\ Lower(t.from) = address)
        received_df == SelectSeq(df, LAMBDA t : Has(t, "to") /\ Lower(t.to) = address)
        sent_values == WithValue(sent_df)
        received_values == WithValue(received_df)
    IN
    CASE k = "total_transactions" -> PyInt(Len(df))
      [] k = "sent_tnx" -> PyInt(Len(sent_df))
      [] k = "received_tnx" -> PyInt(Len(received_df))
      [] k = "total_ether_sent" ->
           IF sent_df # << >> THEN ToEth(SumValues(sent_values)) ELSE Int0
      [] k = "total_ether_received" ->
           IF received_df # << >> THEN ToEth(SumValues(received_values)) ELSE Int0
      [] k = "total_ether_balance" -> TotalEtherBalance(w.balance)
      [] k = "avg_val_sent" ->
           IF sent_df # << >> THEN Mean(sent_values) ELSE Int0
      [] k = "max_val_sent" ->
           IF sent_df # << >> THEN Max(sent_values) ELSE Int0
      [] k = "min_val_sent" ->
           IF sent_df # << >> THEN Min(sent_values) ELSE Int0
      [] k = "avg_val_received" ->
           IF received_df # << >>
           THEN Mean(received_values) ELSE Int0
      [] k = "max_value_received" ->
           IF received_df # << >> THEN Max(received_values) ELSE Int0
      [] k = "min_value_received" ->
           IF received_df # << >> THEN Min(received_values) ELSE Int0
      [] k = "time_diff_between_first_and_last_mins" ->
           IF Len(df) > 1
           THEN LET timestamps == SortedTimes(df) IN
                Num(timestamps[Len(timestamps)] - timestamps[1], 60, 0, TRUE)
           ELSE Int0
      [] k = "avg_min_between_sent_tnx" ->
           IF Len(sent_df) > 1
           THEN Num(SumDiffs(SortedTimes(sent_df)), 60 * (Len(sent_df) - 1), 0, TRUE)
           ELSE Int0
      [] k = "avg_min_between_received_tnx" ->
           IF Len(received_df) > 1
           THEN Num(SumDiffs(SortedTimes(received_df)), 60 * (Len(received_df) - 1), 0, TRUE)
           ELSE Int0
      [] k = "unique_sent_to_addresses" ->
           PyInt(Cardinality({Lower(sent_df[i].to) :
                                 i \in {j \in 1..Len(sent_df) : Has(sent_df[j], "to")}}))
      [] k = "unique_received_from_addresses" ->
           PyInt(Cardinality({Lower(received_df[i].from) :
                                 i \in {j \in 1..Len(received_df) : Has(received_df[j], "from")}}))
      [] OTHER -> Int0

\* no except branch: the values computed so far are returned
extract_features_unguarded(w) ==
    [k \in ComputedKeys \cup Schema |->
        IF k \in ComputedKeys THEN Computed(w, k) ELSE Int0]

\* the except branch returning an empty mapping
extract_features_empty_on_error(w) ==
    IF ExtractionRaises(w)
    THEN [k \in {} |-> Float0]
    ELSE [k \in ComputedKeys \cup Schema |->
            IF k \in ComputedKeys THEN Computed(w, k) ELSE Int0]

\* FeatureEngineer.extract_features(wallet_data)
extract_features(w) ==
    IF ExtractionRaises(w)
    THEN [k \in Schema |-> Float0]
    ELSE [k \in ComputedKeys \cup Schema |->
            IF k \in ComputedKeys THEN Computed(w, k) ELSE Int0]

NoWallet == [transactions |-> << >>, address |-> "0xa", balance |-> [num |-> TRUE, v |-> 0]]
NoFeatures == [called |-> FALSE, value |-> [k \in {} |-> Int0],
               validated |-> FALSE, valid |-> FALSE]

\* one call of extract_features on the wallet data at hand
ExtractFeatures ==
    /\ ~features.called
    /\ features' = [features EXCEPT !.called = TRUE, !.value = extract_features(wallet)]
    /\ UNCHANGED <<wallet, resp, calc>>
    /\ UNCHANGED <<modelVars, feedbackVars>>

\* FeatureEngineer.validate_features(features): False when a schema key is
\* missing from the mapping, True otherwise
validate_features(f) ==
    LET missing == Schema \ DOMAIN f IN
    IF missing # {} THEN FALSE ELSE TRUE

\* the caller of extract_features hands the returned mapping to validate_features
ValidateFeatures ==
    /\ features.called
    /\ ~features.validated
    /\ features' = [features EXCEPT !.validated = TRUE,
                                    !.valid = validate_features(features.value)]
    /\ UNCHANGED <<wallet, resp, calc>>
    /\ UNCHANGED <<modelVars, feedbackVars>>

-----------------------------------------------------------------------------
(* FraudDetector with its parameters spelled out *)

NoCalc == [op |-> "none"]

\* Probabilities are counted in tenths; an ensemble output in hundredths.
Scale == 10

\* Columns are numbered; a frame of one row is a sequence of <<column, value>>
\* in the caller's column order.
Frames ==
    {X \in SeqsUpTo((1..MaxCols) \X {0, 1}, MaxCols) :
        \A i, j \in 1..Len(X) : X[i][1] = X[j][1] => i = j}
Columns(X) == {X[i][1] : i \in 1..Len(X)}

\* X[names]: the values of the named columns, in the order of names
Select(X, names) ==
    [i \in 1..Len(names) |-> X[CHOOSE j \in 1..Len(X) : X[j][1] = names[i]][2]]

\* A fitted classifier is a function from a row to P(fraud): here the capped
\* weighted sum of the row
Estimators == {<<10, 0>>, <<3, 5>>, <<0, 2>>}
Estimator_predict_proba(model, row) ==
    LET p == model[1] * row[1] + model[2] * row[2] IN
    IF p > Scale THEN Scale ELSE p

\* detectors after train(): both classifiers fitted on two columns
TrainedDetectors ==
    [rf_model : Estimators, xgb_model : Estimators,
     feature_names : {<<1, 2>>, <<2, 1>>, <<2, 3>>},
     metrics : {1}, training_date : {0, 7}, use_ensemble : BOOLEAN]

\* the columns taken by position instead of by name
predict_proba_positional(d, X) ==
    IF Len(X) < Len(d.feature_names) THEN [err |-> "KeyError", p |-> 0]
    ELSE LET row == [i \in 1..Len(d.feature_names) |-> X[i][2]]
             rf_proba == Estimator_predict_proba(d.rf_model, row)
             xgb_proba == Estimator_predict_proba(d.xgb_model, row)
         IN IF d.use_ensemble
            THEN [err |-> "none", p |-> 6 * rf_proba + 4 * xgb_proba]
            ELSE [err |-> "none", p |-> Scale * rf_proba]

\* the two weights exchanged
predict_proba_swapped(d, X) ==
    IF \E i \in 1..Len(d.feature_names) : d.feature_names[i] \notin Columns(X)
    THEN [err |-> "KeyError", p |-> 0]
    ELSE LET row == Select(X, d.feature_names)
             rf_proba == Estimator_predict_proba(d.rf_model, row)
             xgb_proba == Estimator_predict_proba(d.xgb_model, row)
         IN IF d.use_ensemble
            THEN [err |-> "none", p |-> 4 * rf_proba + 6 * xgb_proba]
            ELSE [err |-> "none", p |-> Scale * rf_proba]

\* FraudDetector.predict_proba(X) for a one-row frame: the error raised, or
\* the probability of the fraud class in hundredths
predict_proba(d, X) ==
    IF d.rf_model = << >> \/ d.xgb_model = << >> THEN [err |-> "ValueError", p |-> 0]
    ELSE IF \E i \in 1..Len(d.feature_names) : d.feature_names[i] \notin Columns(X)
    THEN [err |-> "KeyError", p |-> 0]
    ELSE LET row == Select(X, d.feature_names)
             rf_proba == Estimator_predict_proba(d.rf_model, row)
             xgb_proba == Estimator_predict_proba(d.xgb_model, row)
         IN IF d.use_ensemble
            THEN [err |-> "none", p |-> 6 * rf_proba + 4 * xgb_proba]
            ELSE [err |-> "none", p |-> Scale * rf_proba]

\* datetime.isoformat() / datetime.fromisoformat(); 0 stands for None
isoformat(t) == IF t # 0 THEN <<t>> ELSE << >>
fromisoformat(str) == IF str # << >> THEN str[1] ELSE 0

\* the three files FraudDetector.save(version) leaves
FraudDetector_saved(d, version) ==
    [random_forest |-> d.rf_model,
     xgboost |-> d.xgb_model,
     metadata |-> [version |-> version,
                   feature_names |-> d.feature_names,
                   metrics |-> d.metrics,
                   training_date |-> isoformat(d.training_date),
                   use_ensemble |-> d.use_ensemble]]

\* FraudDetector(model_dir)
FraudDetector_init ==
    [rf_model |-> << >>, xgb_model |-> << >>, feature_names |-> << >>,
     metrics |-> 0, training_date |-> 0, use_ensemble |-> TRUE]

\* load leaving use_ensemble as constructed
FraudDetector_loaded_default_ensemble(d, files) ==
    [d EXCEPT !.rf_model = files.random_forest,
              !.xgb_model = files.xgboost,
              !.feature_names = files.metadata.feature_names,
              !.metrics = files.metadata.metrics,
              !.training_date = fromisoformat(files.metadata.training_date)]

\* the detector d after d.load(version) has read the three files
FraudDetector_loaded(d, files) ==
    [d EXCEPT !.rf_model = files.random_forest,
              !.xgb_model = files.xgboost,
              !.feature_names = files.metadata.feature_names,
              !.metrics = files.metadata.metrics,
              !.training_date = fromisoformat(files.metadata.training_date),
              !.use_ensemble = files.metadata.use_ensemble]

\* d.predict_proba(X)
PredictProba ==
    /\ calc.op = "detector"
    /\ ~calc.out.called
    /\ calc' = [calc EXCEPT !.out = [called |-> TRUE,
                                     err |-> predict_proba(calc.det, calc.X).err,
                                     p |-> predict_proba(calc.det, calc.X).p]]
    /\ UNCHANGED <<wallet, features, resp>>
    /\ UNCHANGED <<modelVars, feedbackVars>>

\* d.save(v) followed by FraudDetector(model_dir).load(v)
SaveLoad ==
    /\ calc.op = "detector"
    /\ ~calc.reloaded
    /\ \E v \in Versions :
         calc' = [calc EXCEPT !.reloaded = TRUE,
                              !.loaded = FraudDetector_loaded(FraudDetector_init,
                                             FraudDetector_saved(calc.det, v))]
    /\ UNCHANGED <<wallet, features, resp>>
    /\ UNCHANGED <<modelVars, feedbackVars>>

-----------------------------------------------------------------------------
(* DataLoader.prepare_train_test_split *)

\* SMOTE's k_neighbors, scaled down with the datasets: the minority class
\* needs more than k_neighbors rows
k_neighbors == 1

\* A dataset is rows 1..n; rows 1..n_pos carry label 1, the others label 0.
\* test_rows is the test part the shuffle of train_test_split picks for the
\* given random_state: any choice of ceil(test_size * n) rows.
\* train_test_split(X, y, test_size, random_state, stratify=y)
train_test_split(inp) ==
    LET n_test == (inp.test_size * inp.n + 99) \div 100
        n_train == inp.n - n_test
        n_classes == Cardinality({c \in {inp.n_pos, inp.n - inp.n_pos} : c > 0})
    IN [raised |-> \/ n_train = 0
                   \/ inp.n_pos = 1 \/ inp.n - inp.n_pos = 1
                   \/ n_train < n_classes \/ n_test < n_classes,
        X_train |-> (1..inp.n) \ inp.test_rows,
        X_test |-> inp.test_rows]

\* Pipeline([SMOTE(0.5), RandomUnderSampler(0.8)]).fit_resample(X_train, y_train):
\* the minority rows, the synthetic rows added to them (numbered after the
\* dataset's rows), the majority rows and how many of those are kept
fit_resample(inp, X_train) ==
    LET pos == {i \in X_train : i <= inp.n_pos}
        neg == X_train \ pos
        majority == IF Cardinality(pos) > Cardinality(neg) THEN pos ELSE neg
        minority == X_train \ majority
        n_synthetic == (Cardinality(majority) - 2 * Cardinality(minority)) \div 2
        raised == \/ minority = {}
                  \/ n_synthetic <= 0
                  \/ Cardinality(minority) <= k_neighbors
    IN [raised |-> raised,
        minority |-> minority,
        synthetic |-> IF raised THEN {} ELSE (inp.n + 1)..(inp.n + n_synthetic),
        majority |-> majority,
        n_keep |-> IF raised THEN 0
                   ELSE (5 * (Cardinality(minority) + n_synthetic)) \div 4]

\* the test split resampled as well
prepare_train_test_split_resampling_test(inp, balance_data, kept) ==
    LET split == train_test_split(inp)
        r == fit_resample(inp, split.X_train)
        y(X) == [i \in X |-> IF i <= inp.n_pos THEN 1 ELSE 0]
    IN IF split.raised \/ (balance_data /\ r.raised)
       THEN [called |-> TRUE, raised |-> TRUE, X_train |-> {}, X_test |-> {},
             y_train |-> y({}), y_test |-> y({})]
       ELSE [called |-> TRUE, raised |-> FALSE,
             X_train |-> split.X_train,
             X_test |-> IF balance_data THEN split.X_test \cup r.synthetic
                        ELSE split.X_test,
             y_train |-> y(split.X_train),
             y_test |-> y(split.X_test)]

\* DataLoader.prepare_train_test_split(X, y, test_size, random_state,
\* balance_data); kept is the majority rows the under-sampler keeps
prepare_train_test_split(inp, balance_data, kept) ==
    LET split == train_test_split(inp)
        r == fit_resample(inp, split.X_train)
        y(X) == [i \in X |-> IF i <= inp.n_pos THEN 1 ELSE 0]
        minority_label == IF r.minority # {} /\ (CHOOSE i \in r.minority : TRUE) <= inp.n_pos
                          THEN 1 ELSE 0
    IN IF split.raised \/ (balance_data /\ r.raised)
       THEN [called |-> TRUE, raised |-> TRUE, X_train |-> {}, X_test |-> {},
             y_train |-> y({}), y_test |-> y({})]
       ELSE IF balance_data
       THEN [called |-> TRUE, raised |-> FALSE,
             X_train |-> r.minority \cup r.synthetic \cup kept,
             X_test |-> split.X_test,
             y_train |-> [i \in r.minority \cup r.synthetic \cup kept |->
                             IF i > inp.n THEN minority_label
                             ELSE IF i <= inp.n_pos THEN 1 ELSE 0],
             y_test |-> y(split.X_test)]
       ELSE [called |-> TRUE, raised |-> FALSE,
             X_train |-> split.X_train,
             X_test |-> split.X_test,
             y_train |-> y(split.X_train),
             y_test |-> y(split.X_test)]

\* one call of prepare_train_test_split on the dataset at hand, with
\* balance_data set or cleared
PrepareTrainTestSplit ==
    /\ calc.op = "split"
    /\ \E balance_data \in {b \in BOOLEAN : ~calc.out[b].called} :
         LET r == fit_resample(calc.inp, train_test_split(calc.inp).X_train) IN
         \E kept \in {K \in SUBSET r.majority : Cardinality(K) = r.n_keep} :
            calc' = [calc EXCEPT !.out[balance_data] =
                        prepare_train_test_split(calc.inp, balance_data, kept)]
    /\ UNCHANGED <<wallet, features, resp>>
    /\ UNCHANGED <<modelVars, feedbackVars>>

-----------------------------------------------------------------------------
(* DataLoader.preprocess_data *)

\* A frame maps a column name to its dtype and its cells, one cell per row.
\* A numeric cell is a number, np_nan (missing) or np_inf.
np_nan == -1
np_inf == 1000

index_columns == {"Unnamed: 0", "Index", "index", "id", "ID"}

RECURSIVE Sorted(_)
Sorted(cells) == IF cells = << >> THEN << >> ELSE Insert(Head(cells), Sorted(Tail(cells)))

\* Series.median(): the middle of the cells that are not missing, np_nan when
\* there is none
median(cells) ==
    LET present == Sorted(SelectSeq(cells, LAMBDA c : c # np_nan))
        k == Len(present)
    IN IF k = 0 THEN np_nan
       ELSE IF k % 2 = 1 THEN present[(k + 1) \div 2]
       ELSE IF present[k \div 2 + 1] = np_inf THEN np_inf
       ELSE (present[k \div 2] + present[k \div 2 + 1]) \div 2

\* DataLoader.preprocess_data(df, target_column='FLAG'): the error raised, or
\* the pair (X, y); median_over is the columns X has when medians are taken
preprocess_data(df) ==
    LET dropped == {"FLAG"} \cup index_columns
                     \cup {c \in DOMAIN df : ~df[c].numeric}
        numeric_cols == DOMAIN df \ dropped
        fillna(cells) == [i \in 1..Len(cells) |->
                            IF cells[i] = np_nan /\ median(cells) # np_nan
                            THEN median(cells) ELSE cells[i]]
        replace(cells) == [i \in 1..Len(cells) |->
                             IF cells[i] = np_inf THEN np_nan ELSE cells[i]]
    IN IF "FLAG" \notin DOMAIN df
       THEN [called |-> TRUE, raised |-> "ValueError",
             message |-> "Target column 'FLAG' not found in dataset",
             X |-> [c \in {} |-> << >>], y |-> << >>, median_over |-> {}]
       ELSE [called |-> TRUE, raised |-> "none", message |-> "",
             X |-> [c \in numeric_cols |-> fillna(replace(fillna(df[c].cells)))],
             y |-> df["FLAG"].cells,
             median_over |-> numeric_cols]

\* one call of preprocess_data on the dataset at hand
PreprocessData ==
    /\ calc.op = "preprocess"
    /\ ~calc.out.called
    /\ calc' = [calc EXCEPT !.out = preprocess_data(calc.df)]
    /\ UNCHANGED <<wallet, features, resp>>
    /\ UNCHANGED <<modelVars, feedbackVars>>

-----------------------------------------------------------------------------
(* FraudDetector.evaluate *)

MaxEval == 2         \* a test set handed to evaluate has at most MaxEval rows

\* A metric is a fraction <<numerator, denominator>>; <<0, 0>> is nan.
nan == <<0, 0>>
Estimates == {"rf", "xgb", "ensemble"}

\* sklearn.metrics.roc_auc_score(y_true, y_score): the share of (fraud, legit)
\* pairs the score orders rightly, ties counted half; with one class only in
\* y_true the score is not defined, and the library either raises ValueError
\* or gives nan (undefined names which)
roc_auc_score(y_true, y_score, undefined) ==
    LET pos == {i \in 1..Len(y_true) : y_true[i] = 1}
        neg == {i \in 1..Len(y_true) : y_true[i] = 0}
    IN IF pos = {} \/ neg = {}
       THEN [raised |-> IF undefined = "nan" THEN "none" ELSE undefined, value |-> nan]
       ELSE [raised |-> "none",
             value |-> <<2 * Cardinality({q \in pos \X neg : y_score[q[1]] > y_score[q[2]]})
                           + Cardinality({q \in pos \X neg : y_score[q[1]] = y_score[q[2]]}),
                         2 * Cardinality(pos) * Cardinality(neg)>>]

\* FraudDetector.evaluate(X_test, y_test), given what the two fitted models
\* answer on the rows of X_test (probabilities in tenths): the error raised,
\* or the metrics
evaluate(y_test, rf_proba, xgb_proba, feature_names, undefined) ==
    LET n == Len(y_test)
        proba == [e \in Estimates |->
                    CASE e = "rf" -> [i \in 1..n |-> Scale * rf_proba[i]]
                      [] e = "xgb" -> [i \in 1..n |-> Scale * xgb_proba[i]]
                      [] e = "ensemble" ->
                           [i \in 1..n |-> 6 * rf_proba[i] + 4 * xgb_proba[i]]]
        pred == [e \in Estimates |->
                   [i \in 1..n |->
                      IF e = "ensemble"
                      THEN (IF proba[e][i] >= 50 THEN 1 ELSE 0)
                      ELSE (IF proba[e][i] > 50 THEN 1 ELSE 0)]]
        tp(e) == Cardinality({i \in 1..n : y_test[i] = 1 /\ pred[e][i] = 1})
        fp(e) == Cardinality({i \in 1..n : y_test[i] = 0 /\ pred[e][i] = 1})
        fn(e) == Cardinality({i \in 1..n : y_test[i] = 1 /\ pred[e][i] = 0})
        zero_division(num, den) == IF den = 0 THEN <<0, 1>> ELSE <<num, den>>
        auc == [e \in Estimates |-> roc_auc_score(y_test, proba[e], undefined)]
    IN IF \E e \in Estimates : auc[e].raised # "none"
       THEN [called |-> TRUE, raised |-> "ValueError", metrics |-> << >>]
       ELSE [called |-> TRUE, raised |-> "none",
             metrics |->
               [accuracy |-> [e \in Estimates |-> <<n - fp(e) - fn(e), n>>],
                precision |-> [e \in Estimates |-> zero_division(tp(e), tp(e) + fp(e))],
                recall |-> [e \in Estimates |-> zero_division(tp(e), tp(e) + fn(e))],
                f1 |-> [e \in Estimates |->
                          zero_division(2 * tp(e), 2 * tp(e) + fp(e) + fn(e))],
                auc_roc |-> [e \in Estimates |-> auc[e].value],
                training_samples |-> n,
                feature_count |-> Len(feature_names)]]

\* one call of evaluate on the test set at hand
Evaluate ==
    /\ calc.op = "evaluate"
    /\ ~calc.out.called
    /\ \E undefined \in {"ValueError", "nan"} :
         calc' = [calc EXCEPT !.out = evaluate(calc.y_test, calc.rf_proba, calc.xgb_proba,
                                               calc.feature_names, undefined)]
    /\ UNCHANGED <<wallet, features, resp>>
    /\ UNCHANGED <<modelVars, feedbackVars>>

-----------------------------------------------------------------------------
(* AnomalyDetector scores *)

\* IsolationForest.score_samples in tenths: negative, the lower the more
\* anomalous. train() stores as threshold a percentile of the training rows'
\* score_samples, a value of the same range, and the forest's own cut
\* (offset_) is that same percentile.
NoveltyScores == (0 - Scale)..(0 - 1)

\* AnomalyDetector.predict on one row whose score_samples value is given:
\* the pair (predictions[0], scores[0])
AnomalyDetector_predict_row(threshold, score_samples) ==
    [prediction |-> IF score_samples < threshold THEN 0 - 1 ELSE 1,
     anomaly_score |-> 0 - score_samples]

\* routes.predict.detect_anomaly once the detector is reached: the fields of
\* AnomalyDetectionResponse
AnomalyDetectionResponse ==
    /\ calc.op = "anomaly"
    /\ ~calc.out.called
    /\ LET r == AnomalyDetector_predict_row(calc.threshold, calc.score_samples) IN
       calc' = [calc EXCEPT !.out = [called |-> TRUE,
                                     is_anomaly |-> (r.prediction = 0 - 1),
                                     anomaly_score |-> r.anomaly_score,
                                     anomaly_threshold |-> calc.threshold]]
    /\ UNCHANGED <<wallet, features, resp>>
    /\ UNCHANGED <<modelVars, feedbackVars>>

-----------------------------------------------------------------------------
(* ModelExplainer.explain (services/explainer.py) *)

MaxFeatures == 6     \* an explainer is built over at most MaxFeatures features

\* A frame handed to explain is its column names in the caller's order and
\* its number of rows; the cell of row i under column c is Cell(i, c).
Cell(i, c) == ((c + i) % 2) + 1

\* the place list.sort(key=abs_contribution) gives entry j, smallest first
sort_rank_ascending(abs_contribution, j) ==
    1 + Cardinality({k \in 1..Len(abs_contribution) :
                        \/ abs_contribution[k] < abs_contribution[j]
                        \/ abs_contribution[k] = abs_contribution[j] /\ k < j})

\* the place list.sort(key=abs_contribution, reverse=True) gives entry j:
\* larger keys first, equal keys in their order before the sort
sort_rank(abs_contribution, j) ==
    1 + Cardinality({k \in 1..Len(abs_contribution) :
                        \/ abs_contribution[k] > abs_contribution[j]
                        \/ abs_contribution[k] = abs_contribution[j] /\ k < j})

\* ModelExplainer.explain(X, top_n) for top_n >= 0. e.explainer is "None"
\* until initialize() has run; the SHAP value of feature j on a row is
\* e.shap[j] times the row's value of that feature.
explain(e, X, top_n) ==
    LET nf == Len(e.feature_names)
        shap_value(i, j) == e.shap[j] * Cell(i, e.feature_names[j])
        abs(v) == IF v < 0 THEN 0 - v ELSE v
        explanation(i) ==
            LET feature_contributions ==
                    [j \in 1..nf |->
                       [feature |-> e.feature_names[j],
                        shap_value |-> shap_value(i, j),
                        feature_value |-> Cell(i, e.feature_names[j]),
                        abs_contribution |-> abs(shap_value(i, j))]]
                keys == [j \in 1..nf |-> feature_contributions[j].abs_contribution]
                sorted == [r \in 1..nf |->
                             feature_contributions[CHOOSE j \in 1..nf :
                                                      sort_rank(keys, j) = r]]
                top_features == SubSeq(sorted, 1, IF top_n < nf THEN top_n ELSE nf)
                shown == IF Len(top_features) < 5 THEN Len(top_features) ELSE 5
            IN [index |-> i - 1,
                top_features |-> top_features,
                risk_factors |->
                   [r \in 1..shown |->
                      [feature |-> top_features[r].feature,
                       feature_value |-> top_features[r].feature_value,
                       direction |-> IF top_features[r].shap_value > 0
                                     THEN "increases" ELSE "decreases",
                       by |-> abs(top_features[r].shap_value)]]]
    IN IF e.explainer = "None"
       THEN [called |-> TRUE, raised |-> "ValueError",
             message |-> "Explainer not initialized. Call initialize() first.",
             explanations |-> << >>]
       ELSE IF \E j \in 1..nf : \A c \in 1..Len(X.columns) : X.columns[c] # e.feature_names[j]
       THEN [called |-> TRUE, raised |-> "KeyError", message |-> "",
             explanations |-> << >>]
       ELSE [called |-> TRUE, raised |-> "none", message |-> "",
             explanations |-> [i \in 1..X.rows |-> explanation(i)]]

\* ModelExplainer.get_global_importance(X): the error raised, or the features
\* and their summed absolute SHAP values over the rows, largest first
get_global_importance(e, X) ==
    LET nf == Len(e.feature_names)
        abs(v) == IF v < 0 THEN 0 - v ELSE v
        importance == [j \in 1..nf |->
                         abs(e.shap[j]) * (Cell(1, e.feature_names[j])
                            + IF X.rows > 1 THEN Cell(2, e.feature_names[j]) ELSE 0)]
    IN IF e.explainer = "None"
       THEN [raised |-> "ValueError", message |-> "Explainer not initialized",
             importance_df |-> << >>]
       ELSE [raised |-> "none", message |-> "",
             importance_df |->
               [r \in 1..nf |->
                  LET j == CHOOSE k \in 1..nf : sort_rank(importance, k) = r
                  IN [feature |-> e.feature_names[j], importance |-> importance[j]]]]

\* a constructor that builds the SHAP explainer at once
ModelExplainer_init_initializing(model, feature_names) ==
    [model |-> model, feature_names |-> feature_names,
     shap |-> [j \in 1..Len(feature_names) |-> 0], explainer |-> "TreeExplainer"]

\* ModelExplainer.__init__(model, feature_names)
ModelExplainer_init(model, feature_names) ==
    [model |-> model, feature_names |-> feature_names,
     shap |-> [j \in 1..Len(feature_names) |-> 0], explainer |-> "None"]

\* routes.predict.explain_prediction (POST /explain)
explain_prediction ==
    /\ lastLoad.called
    /\ resp' = [NoResp EXCEPT !.route = "explain_prediction",
                              !.status = IF ~attached THEN 500
                                         ELSE IF ~is_ready(mgr) THEN 503
                                         ELSE 501]
    /\ UNCHANGED modelVars
    /\ UNCHANGED <<feedbackVars, featureVars>>

\* one call of explain on the frame at hand
Explain ==
    /\ calc.op = "explain"
    /\ ~calc.out.called
    /\ calc' = [calc EXCEPT !.out = explain(calc.e, calc.X, calc.top_n)]
    /\ UNCHANGED <<wallet, features, resp>>
    /\ UNCHANGED <<modelVars, feedbackVars>>

-----------------------------------------------------------------------------
(* TransactionPredictor (models/predictor.py) *)

\* A risk score is a whole number of points and a projected one a number of
\* hundredths of a point; a balance is counted in hundredths of an ether.
\* np.random.uniform(a, a + 0.1) is a + uniform/100 with uniform in 0..10.

\* the projection returned as it comes out of the multiplication
predict_risk_evolution_unclamped(current_risk_score, feature_map, uniform) ==
    LET get(k) == IF k \in DOMAIN feature_map THEN feature_map[k] ELSE 0
        avg_time_sent == get("avg_min_between_sent_tnx")
        total_txs == get("total_transactions")
        balance == get("total_ether_balance")
        avg_sent == get("avg_val_sent")
        max_sent == get("max_val_sent")
        increasing_factors ==
            (IF avg_time_sent < 60 /\ avg_time_sent > 0 THEN 1 ELSE 0)
            + (IF total_txs < 10 THEN 1 ELSE 0)
            + (IF balance < 1 THEN 1 ELSE 0)
            + (IF max_sent > avg_sent * 10 /\ avg_sent > 0 THEN 1 ELSE 0)
        decreasing_factors == IF total_txs >= 10 /\ total_txs > 100 THEN 1 ELSE 0
        trend == IF increasing_factors > decreasing_factors THEN "increasing"
                 ELSE IF decreasing_factors > increasing_factors THEN "decreasing"
                 ELSE "stable"
        risk_change == CASE trend = "increasing" -> 110 + uniform
                         [] trend = "decreasing" -> 80 + uniform
                         [] trend = "stable" -> 95 + uniform
        changed == current_risk_score * risk_change
    IN [predicted_risk |-> changed,
        trend |-> trend]

\* TransactionPredictor.predict_risk_evolution(current_risk_score, features):
\* the pair (predicted_risk, trend)
predict_risk_evolution(current_risk_score, feature_map, uniform) ==
    LET get(k) == IF k \in DOMAIN feature_map THEN feature_map[k] ELSE 0
        avg_time_sent == get("avg_min_between_sent_tnx")
        total_txs == get("total_transactions")
        balance == get("total_ether_balance")
        avg_sent == get("avg_val_sent")
        max_sent == get("max_val_sent")
        increasing_factors ==
            (IF avg_time_sent < 60 /\ avg_time_sent > 0 THEN 1 ELSE 0)
            + (IF total_txs < 10 THEN 1 ELSE 0)
            + (IF balance < 1 THEN 1 ELSE 0)
            + (IF max_sent > avg_sent * 10 /\ avg_sent > 0 THEN 1 ELSE 0)
        decreasing_factors == IF total_txs >= 10 /\ total_txs > 100 THEN 1 ELSE 0
        trend == IF increasing_factors > decreasing_factors THEN "increasing"
                 ELSE IF decreasing_factors > increasing_factors THEN "decreasing"
                 ELSE "stable"
        risk_change == CASE trend = "increasing" -> 110 + uniform
                         [] trend = "decreasing" -> 80 + uniform
                         [] trend = "stable" -> 95 + uniform
        changed == current_risk_score * risk_change
    IN [predicted_risk |-> IF changed > 10000 THEN 10000 ELSE IF changed < 0 THEN 0 ELSE changed,
        trend |-> trend]

\* TransactionPredictor.predict_transaction_count(historical_data): the error
\* raised, or the count. The transactions are n records spanning days_active
\* whole days, all with a timeStamp or all without.
predict_transaction_count(historical_data, prediction_window_days) ==
    IF historical_data.n < 2 THEN [raised |-> "none", count |-> 0]
    ELSE IF ~historical_data.timeStamp THEN [raised |-> "KeyError", count |-> 0]
    ELSE [raised |-> "none",
          count |-> (historical_data.n * prediction_window_days)
                       \div (IF historical_data.days_active = 0 THEN 1
                             ELSE historical_data.days_active)]

\* TransactionPredictor.predict(wallet_data, current_risk_score, features):
\* the error raised, or the prediction; confidence in hundredths
TransactionPredictor_predict(wallet_data, current_risk_score, feature_map, uniform) ==
    LET prediction_window_days == 7
        tx_count == predict_transaction_count(wallet_data, prediction_window_days)
        evolution == predict_risk_evolution(current_risk_score, feature_map, uniform)
    IN IF tx_count.raised # "none"
       THEN [called |-> TRUE, raised |-> tx_count.raised,
             predicted_transaction_count |-> 0, predicted_risk_evolution |-> "",
             risk_score_7d |-> 0, confidence |-> 0]
       ELSE [called |-> TRUE, raised |-> "none",
             predicted_transaction_count |-> tx_count.count,
             predicted_risk_evolution |-> evolution.trend,
             risk_score_7d |-> evolution.predicted_risk,
             confidence |-> IF wallet_data.n < 5 THEN 30
                            ELSE IF wallet_data.n < 20 THEN 60 ELSE 85]

\* one call of predict, with any draw of the random factor
Predict ==
    /\ calc.op = "predict"
    /\ ~calc.out.called
    /\ \E uniform \in {0, 5, 10} :
         calc' = [calc EXCEPT !.out = TransactionPredictor_predict(
                                         calc.wallet_data, calc.current_risk_score,
                                         calc.features, uniform)]
    /\ UNCHANGED <<wallet, features, resp>>
    /\ UNCHANGED <<modelVars, feedbackVars>>

-----------------------------------------------------------------------------
(* The fields routes.predict.predict_fraud derives from the probability *)

\* A probability and a confidence are counted in thousandths.
Thousandths == 1000

\* int() replaced by round()
PredictionResponse_rounded(fraud_proba) ==
    [risk_score |-> (fraud_proba * 100 + Thousandths \div 2) \div Thousandths,
     is_fraud |-> (fraud_proba >= Thousandths \div 2),
     confidence |-> 2 * (IF fraud_proba < Thousandths \div 2
                         THEN Thousandths \div 2 - fraud_proba
                         ELSE fraud_proba - Thousandths \div 2)]

\* risk_score, is_fraud and confidence of the PredictionResponse
PredictionResponse(fraud_proba) ==
    [risk_score |-> (fraud_proba * 100) \div Thousandths,
     is_fraud |-> (fraud_proba >= Thousandths \div 2),
     confidence |-> 2 * (IF fraud_proba < Thousandths \div 2
                         THEN Thousandths \div 2 - fraud_proba
                         ELSE fraud_proba - Thousandths \div 2)]

\* predict_fraud from the probability on
Respond ==
    /\ calc.op = "respond"
    /\ ~calc.called
    /\ calc' = [calc EXCEPT !.called = TRUE,
                            !.out = PredictionResponse(calc.fraud_proba)]
    /\ UNCHANGED <<wallet, features, resp>>
    /\ UNCHANGED <<modelVars, feedbackVars>>

-----------------------------------------------------------------------------
(* Specifications *)

FullVersion(b) == [f \in Files |-> b]

InitFeedbackVars ==
    /\ log = << >>
    /\ issued = {}
    /\ auto_retrain = TRUE
    /\ scheduled = 0
    /\ taskResult = NoTask

InitFeatureVars ==
    /\ wallet = NoWallet
    /\ features = NoFeatures
    /\ calc = NoCalc

\* The artifact directory holds whatever earlier runs of train_models.py left
\* for the served version; the service has not started.
InitModels ==
    /\ \E dir \in [Files -> {Absent, Corrupt, 1}] :
         store = [v \in Versions |-> IF v = model_version THEN dir ELSE EmptyVersion]
    /\ mgr = NewModelManager
    /\ attached = FALSE
    /\ lastLoad = NoLoad
    /\ trainPc = "idle"
    /\ trainBuild = 1
    /\ trainVersion = model_version
    /\ resp = NoResp
    /\ InitFeedbackVars
    /\ InitFeatureVars

NextModels ==
    \/ lifespan
    \/ load_models
    \/ train_models_main
    \/ FraudDetector_save
    \/ AnomalyDetector_save
    \/ predict_fraud
    \/ detect_anomaly
    \/ explain_prediction

SpecModels == InitModels /\ [][NextModels]_vars

\* The service has started on an empty, a complete or a damaged artifact
\* directory; feedback.jsonl does not exist yet.
InitFeedback ==
    /\ \E dir \in {EmptyVersion, FullVersion(1),
                   [FullVersion(1) EXCEPT !["random_forest"] = Corrupt]} :
         LET r == ModelManager_load_models(NewModelManager, dir) IN
         /\ store = [v \in Versions |-> IF v = model_version THEN dir ELSE EmptyVersion]
         /\ mgr = r.m
         /\ attached = (r.raised = "none")
         /\ lastLoad = LoadRecord(r, dir)
    /\ trainPc = "idle"
    /\ trainBuild = 1
    /\ trainVersion = model_version
    /\ resp = NoResp
    /\ log = << >>
    /\ issued = {}
    /\ auto_retrain \in BOOLEAN
    /\ scheduled = 0
    /\ taskResult = NoTask
    /\ InitFeatureVars

NextFeedback ==
    \/ submit_feedback
    \/ retrain_route
    \/ retrain_models

SpecFeedback == InitFeedback /\ [][NextFeedback]_vars

\* feedback.jsonl as an earlier process, a crash or an editor left it
ForeignLines == {ForeignLine(k) : k \in LineKinds \ {"record"}}
            \cup {Line("record", MaxLog + 1, "0xab", TRUE, FALSE)}

InitLog ==
    /\ store = [v \in Versions |-> IF v = model_version THEN FullVersion(1) ELSE EmptyVersion]
    /\ mgr = ModelManager_load_models(NewModelManager, FullVersion(1)).m
    /\ attached = TRUE
    /\ lastLoad = LoadRecord(ModelManager_load_models(NewModelManager, FullVersion(1)),
                             FullVersion(1))
    /\ trainPc = "idle"
    /\ trainBuild = 1
    /\ trainVersion = model_version
    /\ resp = NoResp
    /\ log \in SeqsUpTo(ForeignLines, MaxLog - 1)
    /\ issued = {log[i].id : i \in 1..Len(log)} \ {0}
    /\ auto_retrain \in BOOLEAN
    /\ scheduled = 0
    /\ taskResult = NoTask
    /\ InitFeatureVars

SpecLog == InitLog /\ [][NextFeedback]_vars

\* extract_features applied once to any wallet data
InitFeatures ==
    /\ store = [v \in Versions |-> EmptyVersion]
    /\ mgr = NewModelManager
    /\ attached = FALSE
    /\ lastLoad = NoLoad
    /\ trainPc = "idle"
    /\ trainBuild = 1
    /\ trainVersion = model_version
    /\ resp = NoResp
    /\ InitFeedbackVars
    /\ wallet \in Wallets
    /\ features = NoFeatures
    /\ calc = NoCalc

NextFeatures ==
    \/ ExtractFeatures
    \/ ValidateFeatures

SpecFeatures == InitFeatures /\ [][NextFeatures]_vars

\* no service, no training run, no feedback, no wallet
InitOffline ==
    /\ store = [v \in Versions |-> EmptyVersion]
    /\ mgr = NewModelManager
    /\ attached = FALSE
    /\ lastLoad = NoLoad
    /\ trainPc = "idle"
    /\ trainBuild = 1
    /\ trainVersion = model_version
    /\ resp = NoResp
    /\ InitFeedbackVars
    /\ wallet = NoWallet
    /\ features = NoFeatures

\* any trained detector and any one-row frame
InitDetector ==
    /\ InitOffline
    /\ \E d \in TrainedDetectors, X \in Frames :
         calc = [op |-> "detector", det |-> d, X |-> X,
                 out |-> [called |-> FALSE, err |-> "none", p |-> 0],
                 reloaded |-> FALSE, loaded |-> FraudDetector_init]

NextDetector ==
    \/ PredictProba
    \/ SaveLoad

SpecDetector == InitDetector /\ [][NextDetector]_vars

\* any labelled dataset of up to MaxRows rows, any test part of the size
\* test_size asks for; neither call made yet
InitSplit ==
    /\ InitOffline
    /\ \E n \in 1..MaxRows, test_size \in {20, 50} :
       \E n_pos \in 0..n, test_rows \in SUBSET (1..n) :
         /\ Cardinality(test_rows) = (test_size * n + 99) \div 100
         /\ calc = [op |-> "split",
                    inp |-> [n |-> n, n_pos |-> n_pos, test_size |-> test_size,
                             test_rows |-> test_rows],
                    out |-> [b \in BOOLEAN |->
                               [called |-> FALSE, raised |-> FALSE,
                                X_train |-> {}, X_test |-> {},
                                y_train |-> [i \in {} |-> 0],
                                y_test |-> [i \in {} |-> 0]]]]

NextSplit == PrepareTrainTestSplit

SpecSplit == InitSplit /\ [][NextSplit]_vars

\* any dataset of up to MaxRecords rows over the columns FLAG (the target),
\* Unnamed: 0 (the row index), Address (text) and Sent tnx (numeric)
InitDataset ==
    /\ InitOffline
    /\ \E n \in 0..MaxRecords, columns \in SUBSET {"FLAG", "Unnamed: 0", "Address", "Sent tnx"} :
       \E flag \in [1..n -> {0, 1}], sent \in [1..n -> {0, 4, np_nan, np_inf}] :
         calc = [op |-> "preprocess",
                 df |-> [c \in columns |->
                           CASE c = "FLAG" -> [numeric |-> TRUE, cells |-> flag]
                             [] c = "Unnamed: 0" ->
                                  [numeric |-> TRUE, cells |-> [i \in 1..n |-> i - 1]]
                             [] c = "Address" ->
                                  [numeric |-> FALSE, cells |-> [i \in 1..n |-> 0]]
                             [] c = "Sent tnx" -> [numeric |-> TRUE, cells |-> sent]],
                 out |-> [called |-> FALSE, raised |-> "none", message |-> "",
                          X |-> [c \in {} |-> << >>], y |-> << >>, median_over |-> {}]]

NextDataset == PreprocessData

SpecDataset == InitDataset /\ [][NextDataset]_vars

\* one call of a model-side routine on any input it can be handed
InitCalls ==
    /\ InitOffline
    /\ \/ \E n \in 1..MaxEval :
          \E y_test \in [1..n -> {0, 1}], rf_proba, xgb_proba \in [1..n -> {0, Scale}] :
            calc = [op |-> "evaluate", y_test |-> y_test, rf_proba |-> rf_proba,
                    xgb_proba |-> xgb_proba, feature_names |-> <<1, 2>>,
                    out |-> [called |-> FALSE, raised |-> "none", metrics |-> << >>]]
       \/ \E threshold, score_samples \in NoveltyScores :
            calc = [op |-> "anomaly", threshold |-> threshold,
                    score_samples |-> score_samples,
                    out |-> [called |-> FALSE, is_anomaly |-> FALSE,
                             anomaly_score |-> 0, anomaly_threshold |-> 0]]
       \/ \E nf \in 1..MaxFeatures, rows \in 1..2, reversed \in BOOLEAN :
          \E shap \in [1..nf -> {0 - 1, 0, 1}], top_n \in 0..(nf + 1) :
            calc = [op |-> "explain",
                    e |-> [feature_names |-> [j \in 1..nf |-> j], shap |-> shap,
                           explainer |-> "TreeExplainer"],
                    X |-> [columns |-> [c \in 1..(nf + 1) |->
                                          IF reversed THEN nf + 2 - c ELSE c],
                           rows |-> rows],
                    top_n |-> top_n,
                    out |-> [called |-> FALSE, raised |-> "none", message |-> "",
                             explanations |-> << >>]]

       \/ \E n \in {0, 2, 4, 5, 19, 20}, timeStamp \in BOOLEAN,
             current_risk_score \in {0, 50, 95, 100},
             avg_time_sent \in {-1, 0, 30, 60}, total_txs \in {-1, 9, 10, 100, 101},
             balance \in {-1, 0, 1}, sent \in {<<0, 0>>, <<1, 10>>, <<1, 11>>, <<-1, 5>>} :
            LET given == [k \in {"avg_min_between_sent_tnx", "total_transactions",
                                 "total_ether_balance", "avg_val_sent", "max_val_sent"} |->
                            CASE k = "avg_min_between_sent_tnx" -> avg_time_sent
                              [] k = "total_transactions" -> total_txs
                              [] k = "total_ether_balance" -> balance
                              [] k = "avg_val_sent" -> sent[1]
                              [] k = "max_val_sent" -> sent[2]]
            IN calc = [op |-> "predict",
                       wallet_data |-> [n |-> n, timeStamp |-> timeStamp,
                                        days_active |-> IF n = 4 THEN 3 ELSE 0],
                       current_risk_score |-> current_risk_score,
                       features |-> [k \in {j \in DOMAIN given : given[j] # -1} |-> given[k]],
                       out |-> [called |-> FALSE, raised |-> "none",
                                predicted_transaction_count |-> 0,
                                predicted_risk_evolution |-> "",
                                risk_score_7d |-> 0, confidence |-> 0]]

       \/ \E fraud_proba \in 0..Thousandths :
            calc = [op |-> "respond", fraud_proba |-> fraud_proba, called |-> FALSE,
                    out |-> [risk_score |-> 0, is_fraud |-> FALSE, confidence |-> 0]]

NextCalls ==
    \/ Evaluate
    \/ AnomalyDetectionResponse
    \/ Explain
    \/ Predict
    \/ Respond

SpecCalls == InitCalls /\ [][NextCalls]_vars

-----------------------------------------------------------------------------
(* Properties *)

SomeAbsent(dir, files) == \E f \in files : dir[f] = Absent
NoneCorrupt(dir) == \A f \in Files : dir[f] # Corrupt

FraudLoaded(d) == d.obj /\ d.rf_model # 0 /\ d.xgb_model # 0 /\ d.feature_names # 0
AnomalyLoaded(d) == d.obj /\ d.model # 0 /\ d.scaler # 0 /\ d.feature_names # 0

\* C1: whenever is_ready() is true, the fraud detector holds both classifiers
\* and its stored feature-name list and the anomaly detector holds its model,
\* its scaler and its stored feature-name list.
C1_ReadyOnlyIfLoaded ==
    is_ready(mgr) => FraudLoaded(mgr.fraud_detector) /\ AnomalyLoaded(mgr.anomaly_detector)

\* C2: a load of a version from which one of the detector's three files is
\* absent (the others readable) fails with a not-found error.
C2_MissingArtifactNotFound ==
    (lastLoad.called /\ NoneCorrupt(lastLoad.dir)) =>
        /\ SomeAbsent(lastLoad.dir, FraudFiles) => lastLoad.fraud = "FileNotFoundError"
        /\ (lastLoad.anomaly # "not called" /\ SomeAbsent(lastLoad.dir, AnomalyFiles))
              => lastLoad.anomaly = "FileNotFoundError"

\* C3: when a required artifact file of the served version is absent,
\* load_models returns normally, the manager is attached and it is not ready.
C3_MissingArtifactDegrades ==
    (lastLoad.called /\ NoneCorrupt(lastLoad.dir) /\ SomeAbsent(lastLoad.dir, Files)) =>
        /\ lastLoad.raised = "none"
        /\ attached
        /\ ~is_ready(mgr)

\* C4: every inference request that is scored reads one complete artifact
\* set: the estimators and the metadata of the detector it used come from
\* the same training run.
C4_InferenceReadsOneBuild ==
    (resp.route = "predict_fraud" /\ resp.status = 200) =>
        /\ FraudLoaded(resp.detector)
        /\ resp.detector.rf_model = resp.detector.xgb_model
        /\ resp.detector.xgb_model = resp.detector.feature_names

IsPrefix(s, t) == Len(s) <= Len(t) /\ \A i \in 1..Len(s) : s[i] = t[i]

\* the number of feedback records stored in the file
NumRecords(file) == Cardinality({i \in 1..Len(file) : file[i].kind = "record"})

\* C5: the feedback log is append-only.  Every step leaves the old log a
\* prefix of the new one and never lowers the count; a submission appends
\* exactly one record carrying an identifier never returned before, and
\* answers with that identifier.
C5_AppendOnly ==
    [][ /\ IsPrefix(log, log')
        /\ get_feedback_count(log').value >= get_feedback_count(log).value
        /\ (issued' # issued =>
              /\ Len(log') = Len(log) + 1
              /\ log'[Len(log')].kind = "record"
              /\ log'[Len(log')].id \notin issued
              /\ resp'.feedback_id = log'[Len(log')].id
              /\ \A i \in 1..Len(log) : log[i].id # resp'.feedback_id)
        /\ (issued' = issued => log' = log) ]_vars

C5_Witness ==
    /\ resp.route = "submit_feedback"
    /\ Len(log) >= 2
    /\ taskResult.called

\* C6: a feedback submission answers will_retrain = TRUE exactly when
\* auto_retrain is enabled and the number of records stored, the new one
\* included, is at least min_training_samples.
C6_WillRetrainThreshold ==
    (resp.route = "submit_feedback" /\ resp.status = 200) =>
        (resp.will_retrain <=> (auto_retrain /\ NumRecords(log) >= min_training_samples))

C6_Witness ==
    /\ resp.route = "submit_feedback"
    /\ resp.will_retrain
    /\ NumRecords(log) = min_training_samples

C8_CorruptLinesSkipped ==
    taskResult.called =>
        /\ taskResult.load_err = "none"
        /\ taskResult.feedback_data = SelectSeq(taskResult.file, LAMBDA l : l.kind = "record")

C10_EmptyAllZero ==
    (features.called /\ wallet.transactions = << >>) =>
        \A k \in Schema : IsZero(features.value[k])

\* C10 amended: with an empty transaction list every schema field other than
\* total_ether_balance is 0; total_ether_balance is balance / 1e18, which is
\* 0 only for a zero balance, and 0 when the address or the balance cannot
\* be read.
C10_EmptyZeroButBalance ==
    (features.called /\ wallet.transactions = << >>) =>
        /\ \A k \in Schema \ {"total_ether_balance"} : IsZero(features.value[k])
        /\ IF ExtractionRaises(wallet) \/ wallet.balance.v = 0
           THEN IsZero(features.value["total_ether_balance"])
           ELSE features.value["total_ether_balance"] = ToEth(wallet.balance.v)

C10_Witness ==
    /\ features.called
    /\ wallet.transactions = << >>
    /\ ~ExtractionRaises(wallet)
    /\ wallet.balance.v # 0

\* C11: extract_features never propagates an error: on every input on which a
\* step of the try block raises (the address is None, the balance or a
\* transaction value is not numeric, no record carries the sender, the
\* recipient or the value, some record carries no timestamp) it returns the
\* vector with exactly the schema's keys and every field 0.
C11_FailureGivesZeroVector ==
    (features.called /\ ExtractionRaises(wallet)) =>
        /\ DOMAIN features.value = Schema
        /\ \A k \in Schema : IsZero(features.value[k])

C11_Witness ==
    /\ features.called
    /\ wallet.address # "None"
    /\ wallet.balance.num
    /\ Len(wallet.transactions) = MaxTx
    /\ RaisesKeyError(wallet.transactions)
    /\ ~RaisesValueError(wallet.transactions)

\* C12: a caller can detect a failed extraction through validate_features: its
\* answer on the all-zero vector substituted after an internal failure differs
\* from its answer on the vector of any successful extraction.
C12_FailureDetectable ==
    (features.validated /\ ExtractionRaises(wallet)) =>
        \A w \in [transactions : {<< >>}, address : WalletAddresses, balance : Balances] :
            ~ExtractionRaises(w) =>
                features.valid # validate_features(extract_features(w))

\* C13: validate_features is a gate before scoring: on the inference path no
\* feature mapping is handed to FraudDetector.predict_proba or
\* AnomalyDetector.predict unless validate_features returns true for it.
C13_ValidatedBeforeScoring ==
    (resp.route \in {"predict_fraud", "detect_anomaly"} /\ resp.scored # "none") =>
        ValidInput(resp.scored)

\* C14 as stated: for every trained or loaded detector and every row,
\* predict_proba returns 0.6 * P_bagged + 0.4 * P_boosted, and that value lies
\* in [0, 1].
C14_WeightedEnsemble ==
    (calc.op = "detector" /\ calc.out.called /\ calc.out.err = "none") =>
        LET row == Select(calc.X, calc.det.feature_names)
            rf_proba == Estimator_predict_proba(calc.det.rf_model, row)
            xgb_proba == Estimator_predict_proba(calc.det.xgb_model, row)
        IN /\ calc.out.p = 6 * rf_proba + 4 * xgb_proba
           /\ calc.out.p \in 0..(10 * Scale)

\* C14 amended: a detector whose use_ensemble flag is true returns
\* 0.6 * P_bagged + 0.4 * P_boosted, a detector whose flag is false returns
\* P_bagged alone; either value lies in [0, 1], as does the weighted sum of
\* every pair of probabilities in [0, 1].
C14_WeightedEnsembleIfEnabled ==
    /\ (calc.op = "detector" /\ calc.out.called /\ calc.out.err = "none") =>
          LET row == Select(calc.X, calc.det.feature_names)
              rf_proba == Estimator_predict_proba(calc.det.rf_model, row)
              xgb_proba == Estimator_predict_proba(calc.det.xgb_model, row)
          IN /\ calc.det.use_ensemble => calc.out.p = 6 * rf_proba + 4 * xgb_proba
             /\ ~calc.det.use_ensemble => calc.out.p = Scale * rf_proba
             /\ calc.out.p \in 0..(10 * Scale)
    /\ \A a, b \in 0..Scale : 6 * a + 4 * b \in 0..(10 * Scale)

C14_Witness ==
    /\ calc.op = "detector"
    /\ calc.out.called
    /\ calc.out.err = "none"
    /\ calc.det.use_ensemble
    /\ calc.out.p \notin {0, 10 * Scale}
    /\ calc.det.rf_model # calc.det.xgb_model

\* C15: predict_proba scores against the stored feature-name list only: when
\* the input lacks a stored feature the call fails with an error and yields no
\* score (nothing is padded); when all are present the result is the same
\* whatever the order of the caller's columns and whatever extra columns it
\* carries.
C15_ScoresStoredFeaturesOnly ==
    (calc.op = "detector" /\ calc.out.called) =>
        LET names == calc.det.feature_names
            X == calc.X
            reversed == [i \in 1..Len(X) |-> X[Len(X) + 1 - i]]
            stripped == SelectSeq(X, LAMBDA c : \E i \in 1..Len(names) : names[i] = c[1])
        IN IF \E i \in 1..Len(names) : names[i] \notin Columns(X)
           THEN calc.out.err = "KeyError"
           ELSE /\ calc.out.err = "none"
                /\ calc.out.p = predict_proba(calc.det, reversed).p
                /\ calc.out.p = predict_proba(calc.det, stripped).p
                /\ predict_proba(calc.det, reversed).err = "none"
                /\ predict_proba(calc.det, stripped).err = "none"

C15_Witness ==
    /\ calc.op = "detector"
    /\ calc.out.called
    /\ calc.out.err = "none"
    /\ Len(calc.X) = MaxCols
    /\ calc.X[1][1] # calc.det.feature_names[1]
    /\ calc.X[1][2] # calc.X[2][2]
    /\ calc.out.p # 0

\* C16: a detector that loads version v after d.save(v) has the feature-name
\* list of d, in the same order, and gives the predict_proba output of d on
\* every sample.
C16_SaveLoadRoundTrip ==
    (calc.op = "detector" /\ calc.reloaded) =>
        /\ calc.loaded.feature_names = calc.det.feature_names
        /\ predict_proba(calc.loaded, calc.X) = predict_proba(calc.det, calc.X)

C16_Witness ==
    /\ calc.op = "detector"
    /\ calc.reloaded
    /\ ~calc.det.use_ensemble
    /\ calc.det.feature_names = <<2, 1>>
    /\ predict_proba(calc.det, calc.X).err = "none"
    /\ predict_proba(calc.det, calc.X).p # 0

\* C17: saving under a version writes only that version's files: a save under
\* another version leaves every artifact of version w unchanged (so load(w)
\* yields the same detector), and metrics once saved for a version are never
\* replaced by a later save.
C17_SaveWritesOnlyItsVersion ==
    [][/\ \A w \in Versions \ {trainVersion} : store'[w] = store[w]
       /\ \A v \in Versions, f \in {"metadata", "anomaly_metadata"} :
             store[v][f] \in Builds => store'[v][f] = store[v][f]]_vars

\* C18: prepare_train_test_split never alters the test split: the returned
\* X_test and y_test are the same with balance_data set and cleared, balancing
\* changes the training split only, and every test row is an original row of
\* the dataset that is not in the training split.
C18_TestSplitUntouched ==
    calc.op = "split" =>
        /\ \A b \in BOOLEAN :
              (calc.out[b].called /\ ~calc.out[b].raised) =>
                  /\ calc.out[b].X_test \subseteq 1..calc.inp.n
                  /\ calc.out[b].X_test \cap calc.out[b].X_train = {}
                  /\ calc.out[b].y_test =
                        [i \in calc.out[b].X_test |-> IF i <= calc.inp.n_pos THEN 1 ELSE 0]
        /\ (/\ calc.out[TRUE].called /\ ~calc.out[TRUE].raised
            /\ calc.out[FALSE].called /\ ~calc.out[FALSE].raised) =>
              /\ calc.out[TRUE].X_test = calc.out[FALSE].X_test
              /\ calc.out[TRUE].y_test = calc.out[FALSE].y_test

C18_Witness ==
    /\ calc.op = "split"
    /\ calc.out[TRUE].called /\ ~calc.out[TRUE].raised
    /\ calc.out[FALSE].called /\ ~calc.out[FALSE].raised
    /\ calc.out[TRUE].X_train # calc.out[FALSE].X_train
    /\ \E i \in calc.out[TRUE].X_train : i > calc.inp.n
    /\ calc.out[TRUE].X_test # {}

\* C19: whenever preprocess_data returns (X, y), X has as many rows as y has
\* labels, X has no target column, no deny-listed index column and no
\* non-numeric column, the deny-listed columns are gone before any median is
\* taken, and X holds no missing and no infinite value.
C19_CleanFeatureFrame ==
    (calc.op = "preprocess" /\ calc.out.called /\ calc.out.raised = "none") =>
        /\ \A c \in DOMAIN calc.out.X : Len(calc.out.X[c]) = Len(calc.out.y)
        /\ "FLAG" \notin DOMAIN calc.out.X
        /\ DOMAIN calc.out.X \cap index_columns = {}
        /\ \A c \in DOMAIN calc.out.X : calc.df[c].numeric
        /\ calc.out.median_over \cap index_columns = {}
        /\ \A c \in DOMAIN calc.out.X : \A i \in 1..Len(calc.out.X[c]) :
              calc.out.X[c][i] \notin {np_nan, np_inf}

\* C20: preprocess_data fails with an error naming the condition, and
\* returns no (X, y), when the target column is absent and when the dataset
\* has no rows.
C20_DatasetErrors ==
    (calc.op = "preprocess" /\ calc.out.called) =>
        /\ "FLAG" \notin DOMAIN calc.df =>
              /\ calc.out.raised = "ValueError"
              /\ calc.out.message = "Target column 'FLAG' not found in dataset"
        /\ (\A c \in DOMAIN calc.df : calc.df[c].cells = << >>) =>
              /\ calc.out.raised = "ValueError"
              /\ calc.out.message # ""

\* C21: evaluate never fails because a class is absent: on test labels of one
\* class only it still returns every metric of both estimators and of the
\* ensemble, and a metric that is not defined is reported as 0.
C21_SingleClassEvaluates ==
    (calc.op = "evaluate" /\ calc.out.called) =>
        /\ calc.out.raised = "none"
        /\ \A e \in Estimates :
             /\ calc.out.metrics.auc_roc[e] # nan
             /\ (\A i \in 1..Len(calc.y_test) : calc.y_test[i] = calc.y_test[1])
                  => calc.out.metrics.auc_roc[e] = <<0, 1>>

\* C22: the score and the threshold handed to a caller point the same way
\* (higher is more anomalous): the score is the negated novelty score, and the
\* row is labelled anomalous exactly when its score exceeds the threshold
\* reported with it.
C22_OneDirection ==
    (calc.op = "anomaly" /\ calc.out.called) =>
        /\ calc.out.anomaly_score = 0 - calc.score_samples
        /\ calc.out.is_anomaly <=> (calc.out.anomaly_score > calc.out.anomaly_threshold)

\* explain has answered one entry per row, each listing the features of
\* largest absolute contribution, largest first, with their values read under
\* the trained names, and as many reasons as expected, from the head of the list
Least(a, b) == IF a < b THEN a ELSE b
ExplainedRightly(reasons_expected(_, _)) ==
    (calc.op = "explain" /\ calc.out.called) =>
        /\ calc.out.raised = "none"
        /\ Len(calc.out.explanations) = calc.X.rows
        /\ \A i \in 1..calc.X.rows :
             LET x == calc.out.explanations[i]
                 nf == Len(calc.e.feature_names)
                 listed == {x.top_features[r].feature : r \in 1..Len(x.top_features)}
                 weight(f) == IF calc.e.shap[f] * Cell(i, f) < 0
                              THEN 0 - calc.e.shap[f] * Cell(i, f)
                              ELSE calc.e.shap[f] * Cell(i, f)
             IN /\ Len(x.top_features) = Least(calc.top_n, nf)
                /\ Cardinality(listed) = Len(x.top_features)
                /\ \A r \in 1..Len(x.top_features) :
                     /\ x.top_features[r].feature \in 1..nf
                     /\ x.top_features[r].shap_value
                           = calc.e.shap[x.top_features[r].feature]
                               * Cell(i, x.top_features[r].feature)
                     /\ x.top_features[r].feature_value = Cell(i, x.top_features[r].feature)
                     /\ r > 1 => weight(x.top_features[r - 1].feature)
                                   >= weight(x.top_features[r].feature)
                     /\ \A f \in (1..nf) \ listed :
                          weight(f) <= weight(x.top_features[r].feature)
                /\ Len(x.risk_factors) = reasons_expected(calc.top_n, nf)
                /\ \A r \in 1..Len(x.risk_factors) :
                     /\ x.risk_factors[r].feature = x.top_features[r].feature
                     /\ x.top_features[r].shap_value > 0
                          => x.risk_factors[r].direction = "increases"
                     /\ x.top_features[r].shap_value < 0
                          => x.risk_factors[r].direction = "decreases"

C24_ProjectionBounded ==
    (calc.op = "predict" /\ calc.out.called /\ calc.out.raised = "none") =>
        LET f == calc.features
            has(k) == k \in DOMAIN f
            increasing ==
                Cardinality(
                  {k \in DOMAIN f : k = "avg_min_between_sent_tnx" /\ f[k] \in 1..59}
                  \cup (IF has("total_transactions") /\ f["total_transactions"] >= 10
                        THEN {} ELSE {"total_transactions"})
                  \cup (IF has("total_ether_balance") /\ f["total_ether_balance"] >= 1
                        THEN {} ELSE {"total_ether_balance"})
                  \cup (IF has("avg_val_sent") /\ has("max_val_sent")
                           /\ f["avg_val_sent"] > 0
                           /\ f["max_val_sent"] > 10 * f["avg_val_sent"]
                        THEN {"max_val_sent"} ELSE {}))
            decreasing == IF has("total_transactions") /\ f["total_transactions"] > 100
                          THEN 1 ELSE 0
        IN /\ calc.out.risk_score_7d \in 0..10000
           /\ calc.out.predicted_risk_evolution =
                 (IF increasing > decreasing THEN "increasing"
                  ELSE IF increasing < decreasing THEN "decreasing" ELSE "stable")
           /\ calc.out.predicted_risk_evolution = "increasing"
                 => calc.out.risk_score_7d >= 100 * calc.current_risk_score
           /\ calc.out.predicted_risk_evolution = "decreasing"
                 => calc.out.risk_score_7d <= 100 * calc.current_risk_score
           /\ calc.out.confidence = (IF calc.wallet_data.n < 5 THEN 30
                                     ELSE IF calc.wallet_data.n < 20 THEN 60 ELSE 85)

\* predict has answered for a wallet of at least 20 transactions at the top
\* score with more increasing than decreasing factors: the projection is capped
C24_Witness ==
    /\ calc.op = "predict" /\ calc.out.called /\ calc.out.raised = "none"
    /\ calc.wallet_data.n >= 20
    /\ calc.current_risk_score = 100
    /\ calc.out.predicted_risk_evolution = "increasing"
    /\ calc.out.risk_score_7d = 10000
    /\ calc.out.confidence = 85

\* C25: with auto_retrain and min_training_samples fixed, will_retrain is
\* monotone over feedback submissions: once a submission has been answered
\* will_retrain = true, every later submission is answered will_retrain =
\* true, whatever submissions, retrain requests and retrain tasks come between.
C25_WillRetrainMonotone ==
    []((resp.route = "submit_feedback" /\ resp.status = 200 /\ resp.will_retrain)
         => [](resp.route = "submit_feedback" /\ resp.status = 200 => resp.will_retrain))

\* a submission is answered will_retrain = true after an earlier one was, with
\* a retrain task run on the log in between
C25_Witness ==
    /\ resp.route = "submit_feedback" /\ resp.status = 200 /\ resp.will_retrain
    /\ Len(log) > min_training_samples
    /\ taskResult.called /\ Len(taskResult.file) = min_training_samples

C27_ReadinessFirst ==
    [][(resp' # resp /\ resp'.route \in {"predict_fraud", "detect_anomaly"}) =>
          /\ ~is_ready(mgr) => resp'.scored = "none"
          /\ (attached /\ ~is_ready(mgr)) => resp'.status = 503
          /\ (attached /\ is_ready(mgr) /\ resp'.request \in {"none", "empty"}) =>
                resp'.status = 400 /\ resp'.scored = "none"
      ]_vars

\* a request without features has been answered 503 by a manager that is
\* attached and not ready
C27_Witness ==
    /\ resp.route = "predict_fraud" /\ resp.status = 503
    /\ resp.request = "none" /\ resp.scored = "none"
    /\ attached /\ ~is_ready(mgr)

\* C28: for every probability p in [0, 1], risk_score is the integer part of
\* 100 * p and lies in 0..100, is_fraud is true exactly when risk_score >= 50
\* (that is, when p >= 0.5), and confidence is 2 * |p - 0.5|, within [0, 1].
C28_ResponseFields ==
    (calc.op = "respond" /\ calc.called) =>
        LET p == calc.fraud_proba IN
        /\ calc.out.risk_score \in 0..100
        /\ calc.out.risk_score * Thousandths <= 100 * p
        /\ 100 * p < (calc.out.risk_score + 1) * Thousandths
        /\ calc.out.is_fraud <=> calc.out.risk_score >= 50
        /\ calc.out.is_fraud <=> 2 * p >= Thousandths
        /\ calc.out.confidence \in 0..Thousandths
        /\ calc.out.confidence \in {2 * p - Thousandths, Thousandths - 2 * p}

\* the response for a probability just under one half: risk_score 49, no fraud
C28_Witness ==
    /\ calc.op = "respond" /\ calc.called
    /\ calc.fraud_proba = Thousandths \div 2 - 1
    /\ calc.out.risk_score = 49 /\ ~calc.out.is_fraud
    /\ calc.out.confidence = 2

C30_CountIsRecordsLoaded ==
    /\ get_feedback_count(log).err = load_feedback_data(log).err
    /\ get_feedback_count(log).value = Len(load_feedback_data(log).value)

====
